---- MODULE Spec2Model ----
(***************************************************************************)
(* A model of the rrt crate (src/src/lib.rs): the parent-pointer Tree with *)
(* its nearest / radius queries, extend, extend_rewire, connect,           *)
(* get_until_root, the planners dual_rrt_connect and rrt_star_connect, and *)
(* smooth_path.                                                            *)
(*                                                                         *)
(* Points are one-dimensional (Vec<N> of length 1) with small integer      *)
(* coordinates.  On such points every float operation of the source is     *)
(* exact: squared_euclidean(a, b) = (a-b)^2, its sqrt is |a-b|, and the    *)
(* steering expression near + (target-near) * extend_length / diff_dist is *)
(* near +/- extend_length.  Vertex indices are 1-based here (0-based in    *)
(* the source); parent_index = None is the value None below.               *)
(***************************************************************************)
EXTENDS Integers, Sequences, FiniteSets, TLC

\* ------------------------------------------------------------------ bounds
MaxCoord == 3
MaxLen == 2
MaxTry == 2
MaxPath == 4
MaxWaypoint == 2
MaxNeg == 1
MaxTreeCoord == 5
MaxTreeLen == 3
MaxVertices == 3

Coords == 0..MaxCoord
Lengths == 1..MaxLen
Budgets == 0..MaxTry
Waypoints == 0..MaxWaypoint

\* ------------------------------------------------------------------- state
VARIABLES
    fn,             \* the public function that was called
    start,          \* argument start
    goal,           \* argument goal
    extend_length,  \* argument extend_length
    num_max_try,    \* argument num_max_try
    free,           \* the points is_free accepts (a deterministic predicate)
    pick,           \* how the kd-tree breaks ties between equidistant points
    script,         \* the point a deterministic random_sample returns
    run,            \* the locals of the running call
    run2            \* the locals of a second call with the same arguments

vars == <<fn, start, goal, extend_length, num_max_try, free, pick, script, run, run2>>

\* --------------------------------------------------------------- geometry
squared_euclidean(a, b) == (a - b) * (a - b)

sqrt(n) == CHOOSE r \in 0..n : r * r = n

\* near + (target - near) * extend_length / diff_dist
steer_away(near, target, len, diff_dist) ==
    near - ((target - near) * len) \div diff_dist

steer(near, target, len, diff_dist) == near + ((target - near) * len) \div diff_dist

is_free(q) == q \in free

Reverse(s) == [i \in 1..Len(s) |-> s[Len(s) + 1 - i]]

\* -------------------------------------------------------------------- Tree
None == 0

Node(data) == [parent_index |-> None, data |-> data]

Tree_new(name) == [name |-> name, kdtree |-> {}, vertices |-> <<>>]

\* Returns the tree with q appended to the vertex store and the kd-tree; the
\* index the source returns is Len(t.vertices) + 1 of the tree before the call.
add_vertex(t, q) ==
    [t EXCEPT !.kdtree = @ \cup {<<q, Len(t.vertices) + 1>>},
              !.vertices = Append(@, Node(q))]

add_edge(t, q1_index, q2_index) ==
    [t EXCEPT !.vertices[q2_index].parent_index = q1_index]

\* The entries of the kd-tree at minimal squared distance from q.
NearestEntries(t, q) ==
    {e \in t.kdtree :
        \A o \in t.kdtree : squared_euclidean(q, e[1]) <= squared_euclidean(q, o[1])}

\* kdtree.nearest(q, 1, &squared_euclidean): an entry at minimal distance.
\* Which of several equidistant entries the kd-tree returns is fixed by its
\* layout; pick stands for that rule (the lowest or the highest index).
get_nearest_index(t, q) ==
    LET idx == {e[2] : e \in NearestEntries(t, q)}
    IN  IF pick = "low"
        THEN CHOOSE i \in idx : \A j \in idx : i <= j
        ELSE CHOOSE i \in idx : \A j \in idx : i >= j

\* kdtree.within(q, radius, &squared_euclidean): every stored entry whose
\* distance under the given function, the squared one, is at most radius; an
\* entry stored at q itself is among them.
get_nearest_indices_in_radius(t, q, radius) ==
    {e[2] : e \in {x \in t.kdtree : squared_euclidean(q, x[1]) <= radius}}

\* The candidate point of extend and extend_rewire.
q_new_of(t, q_target, len) ==
    LET nearest_q == t.vertices[get_nearest_index(t, q_target)].data
        diff_dist == sqrt(squared_euclidean(q_target, nearest_q))
    IN  IF diff_dist < len THEN q_target ELSE steer(nearest_q, q_target, len, diff_dist)

ExtendReached(q_new, q_target, len) ==
    sqrt(squared_euclidean(q_new, q_target)) < len

\* Mutant of extend: the candidate is inserted without asking is_free.
extend_unchecked(t, q_target, len) ==
    LET nearest_index == get_nearest_index(t, q_target)
        q_new == q_new_of(t, q_target, len)
        new_index == Len(t.vertices) + 1
    IN  [tree |-> add_edge(add_vertex(t, q_new), nearest_index, new_index),
         status |-> IF ExtendReached(q_new, q_target, len) THEN "Reached" ELSE "Advanced",
         index |-> new_index]

extend_eager(t, q_target, len) ==
    LET nearest_index == get_nearest_index(t, q_target)
        q_new == q_new_of(t, q_target, len)
        new_index == Len(t.vertices) + 1
        added == add_vertex(t, q_new)
    IN  IF ~(len > 0) THEN [tree |-> t, status |-> "Panic", index |-> None]
        ELSE IF is_free(q_new)
        THEN [tree |-> add_edge(added, nearest_index, new_index),
              status |-> IF ExtendReached(q_new, q_target, len)
                         THEN "Reached" ELSE "Advanced",
              index |-> new_index]
        ELSE [tree |-> added, status |-> "Trapped", index |-> None]

\* status "Panic" is the failed assert!(extend_length > N::zero()).
extend(t, q_target, len) ==
    LET nearest_index == get_nearest_index(t, q_target)
        q_new == q_new_of(t, q_target, len)
        new_index == Len(t.vertices) + 1
    IN  IF ~(len > 0) THEN [tree |-> t, status |-> "Panic", index |-> None]
        ELSE IF is_free(q_new)
        THEN [tree |-> add_edge(add_vertex(t, q_new), nearest_index, new_index),
              status |-> IF ExtendReached(q_new, q_target, len)
                         THEN "Reached" ELSE "Advanced",
              index |-> new_index]
        ELSE [tree |-> t, status |-> "Trapped", index |-> None]

\* The rewiring pass of extend_rewire over the vertices around q_new.
rewire(t, q_new, new_index, len) ==
    LET neighbors == get_nearest_indices_in_radius(t, q_new, len)
        closer(i) ==
            /\ i \in neighbors
            /\ t.vertices[i].parent_index # None
            /\ squared_euclidean(q_new, t.vertices[i].data)
                 < squared_euclidean(t.vertices[t.vertices[i].parent_index].data,
                                     t.vertices[i].data)
    IN  [t EXCEPT !.vertices =
            [i \in 1..Len(t.vertices) |->
                IF closer(i) THEN [@[i] EXCEPT !.parent_index = new_index] ELSE @[i]]]

RewireReached(q_new, q_target, len) ==
    squared_euclidean(q_new, q_target) < len

extend_rewire(t, q_target, len) ==
    LET nearest_index == get_nearest_index(t, q_target)
        q_new == q_new_of(t, q_target, len)
        new_index == Len(t.vertices) + 1
    IN  IF ~(len > 0) THEN [tree |-> t, status |-> "Panic", index |-> None]
        ELSE IF is_free(q_new)
        THEN [tree |-> rewire(add_edge(add_vertex(t, q_new), nearest_index, new_index),
                              q_new, new_index, len),
              status |-> IF RewireReached(q_new, q_target, len)
                         THEN "Reached" ELSE "Advanced",
              index |-> new_index]
        ELSE [tree |-> t, status |-> "Trapped", index |-> None]

RECURSIVE connect(_, _, _)
connect(t, q_target, len) ==
    LET e == extend(t, q_target, len)
    IN  IF e.status = "Advanced" THEN connect(e.tree, q_target, len) ELSE e

\* The walk of get_until_root from cur_index with nodes collected so far.  A
\* walk over n vertices that has pushed n points has visited a vertex twice:
\* the while loop of the source then never ends (ends |-> FALSE).
RECURSIVE root_walk(_, _, _)
root_walk(t, cur_index, nodes) ==
    LET parent_index == t.vertices[cur_index].parent_index
    IN  IF parent_index = None THEN [ends |-> TRUE, nodes |-> nodes]
        ELSE IF Len(nodes) >= Len(t.vertices) THEN [ends |-> FALSE, nodes |-> nodes]
        ELSE root_walk(t, parent_index, Append(nodes, t.vertices[parent_index].data))

get_until_root(t, index) == root_walk(t, index, <<>>)

\* ----------------------------------------------------------------- results
NoResult == [kind |-> "none", path |-> <<>>]
Ok(p) == [kind |-> "Ok", path |-> p]
Err == [kind |-> "Err", path |-> <<>>]

\* -------------------------------------------------------- dual_rrt_connect
\* The locals after the two add_vertex calls, before the first iteration.
\* samples counts the calls of random_sample; log is the outcome of connect in
\* each finished iteration ("NotCalled" when extend was Trapped).
dual_enter ==
    [tree_a |-> add_vertex(Tree_new("start"), start),
     tree_b |-> add_vertex(Tree_new("goal"), goal),
     tries |-> 0, samples |-> 0, log |-> <<>>,
     pc |-> "loop", result |-> NoResult]

\* Mutant of dual_path: the result is never reversed.
dual_path_unordered(tree_a, new_index, tree_b, reach_index) ==
    Reverse(get_until_root(tree_a, new_index).nodes)
        \o get_until_root(tree_b, reach_index).nodes

\* The path built when tree_b.connect returned Reached(reach_index).
dual_path(tree_a, new_index, tree_b, reach_index) ==
    LET a_all == Reverse(get_until_root(tree_a, new_index).nodes)
        b_all == get_until_root(tree_b, reach_index).nodes
    IN  IF tree_b.name = "start" THEN Reverse(a_all \o b_all) ELSE a_all \o b_all

\* mem::swap(&mut tree_a, &mut tree_b) and the end of one iteration.
dual_swap(s, tree_a, tree_b, outcome) ==
    [s EXCEPT !.tree_a = tree_b, !.tree_b = tree_a,
              !.tries = @ + 1, !.samples = @ + 1, !.log = Append(@, outcome)]

\* Mutant of dual_q_rand: the goal bias of rrt_star_connect copied here.
dual_q_rand_biased(bias, sample) == IF bias THEN goal ELSE sample

\* let q_rand = random_sample(): bias, a draw of the thread's random number
\* generator, is not consulted.
dual_q_rand(bias, sample) == sample

\* Mutant of dual_iteration: tree_b.connect is called toward q_rand when
\* tree_a.extend was Trapped.
dual_iteration_connect_anyway(s, q_rand) ==
    LET e == extend(s.tree_a, q_rand, extend_length)
        q_new == IF e.status = "Trapped" THEN q_rand
                 ELSE e.tree.vertices[e.index].data
        c == connect(s.tree_b, q_new, extend_length)
    IN  IF e.status = "Panic"
        THEN [s EXCEPT !.samples = @ + 1, !.pc = "panic"]
        ELSE IF c.status = "Reached" /\ e.status # "Trapped"
        THEN [s EXCEPT !.tree_a = e.tree, !.tree_b = c.tree,
                       !.samples = @ + 1, !.log = Append(@, "Reached"),
                       !.pc = "done",
                       !.result = Ok(dual_path(e.tree, e.index, c.tree, c.index))]
        ELSE dual_swap(s, e.tree, c.tree, c.status)

\* One iteration of the for loop with q_rand drawn from random_sample.
dual_iteration(s, q_rand) ==
    LET e == extend(s.tree_a, q_rand, extend_length)
    IN  IF e.status = "Panic"
        THEN [s EXCEPT !.samples = @ + 1, !.pc = "panic"]
        ELSE IF e.status = "Trapped"
        THEN dual_swap(s, s.tree_a, s.tree_b, "NotCalled")
        ELSE LET q_new == e.tree.vertices[e.index].data
                 c == connect(s.tree_b, q_new, extend_length)
             IN  IF c.status = "Reached"
                 THEN [s EXCEPT !.tree_a = e.tree, !.tree_b = c.tree,
                                !.samples = @ + 1, !.log = Append(@, "Reached"),
                                !.pc = "done",
                                !.result = Ok(dual_path(e.tree, e.index, c.tree, c.index))]
                 ELSE dual_swap(s, e.tree, c.tree, c.status)

\* Mutant of dual_loop_ended: the loop runs one iteration too many.
dual_loop_ended_late(s) == s.tries > num_max_try

dual_loop_ended(s) == s.tries >= num_max_try

\* Err("failed".to_string()) after the loop.
dual_failed(s) == [s EXCEPT !.pc = "done", !.result = Err]

\* -------------------------------------------------------- rrt_star_connect
star_enter ==
    [tree |-> add_vertex(Tree_new("rrt_star"), start),
     closest_to_goal |-> start,
     min_dist_to_goal |-> sqrt(squared_euclidean(goal, start)),
     tries |-> 0, samples |-> 0, draws |-> <<>>, target |-> None,
     pc |-> "loop", result |-> NoResult]

\* return Ok(tree.get_until_root(index)): the call returns when the walk ends.
\* target records the vertex the walk was started from.
star_return(s, t, index) ==
    LET w == get_until_root(t, index)
    IN  IF w.ends
        THEN [s EXCEPT !.tree = t, !.target = index, !.pc = "done", !.result = Ok(w.nodes)]
        ELSE [s EXCEPT !.tree = t, !.target = index, !.pc = "hang"]

\* if rand::random::<f64>() < 0.1 { goal.to_vec() } else { random_sample() }
star_q_rand(bias, sample) == IF bias THEN goal ELSE sample

\* One iteration of the for loop; bias is rand::random::<f64>() < 0.1 and
\* sample the value random_sample() returns when it is called.  draws keeps
\* the values of bias so far.
star_iteration(s, bias, sample) ==
    LET q_rand == star_q_rand(bias, sample)
        drawn == IF bias THEN 0 ELSE 1
        e == extend_rewire(s.tree, q_rand, extend_length)
        new_point == e.tree.vertices[e.index].data
        dist_to_goal == sqrt(squared_euclidean(goal, new_point))
        better == dist_to_goal < s.min_dist_to_goal
        s0 == [s EXCEPT !.tries = @ + 1, !.samples = @ + drawn,
                        !.draws = Append(@, bias)]
        s1 == [s0 EXCEPT !.tree = e.tree,
                        !.closest_to_goal = IF better THEN new_point ELSE @,
                        !.min_dist_to_goal = IF better THEN dist_to_goal ELSE @]
    IN  IF e.status = "Panic"
        THEN [s EXCEPT !.samples = @ + drawn, !.draws = Append(@, bias), !.pc = "panic"]
        ELSE IF e.status = "Trapped"
        THEN s0
        ELSE IF dist_to_goal < extend_length /\ is_free(goal)
             THEN LET t1 == add_vertex(e.tree, goal)
                      t2 == add_edge(t1, e.index, Len(t1.vertices))
                  IN  star_return(s1, t2, Len(t2.vertices))
             ELSE s1

star_loop_ended(s) == s.tries >= num_max_try

\* tree.vertices.iter().position(|v| v.data == closest_to_goal).unwrap()
index_of_closest(s) ==
    CHOOSE i \in 1..Len(s.tree.vertices) :
        /\ s.tree.vertices[i].data = s.closest_to_goal
        /\ \A j \in 1..(i - 1) : s.tree.vertices[j].data # s.closest_to_goal

star_finish(s) == star_return(s, s.tree, index_of_closest(s))

\* -------------------------------------------------------------- smooth_path
\* The call of smooth_path(path, is_free, extend_length, num_max_try) on entry.
\* input is the path as passed in, calls counts the calls of is_free, ind1,
\* ind2 and last are the indices and the outcome of the last attempt.
smooth_enter(p) ==
    [path |-> p, input |-> p, tries |-> 0, calls |-> 0,
     ind1 |-> None, ind2 |-> None, last |-> "none", pc |-> "entry"]

\* Mutant of smooth_entry: the early return only for fewer than 2 points.
smooth_entry_late(s) == [s EXCEPT !.pc = IF Len(s.path) < 2 THEN "done" ELSE "loop"]

\* if path.len() < 3 { return; }
smooth_entry(s) == [s EXCEPT !.pc = IF Len(s.path) < 3 THEN "done" ELSE "loop"]

\* Mutant of shortcut_search: only the first check point is tested.
shortcut_first_step(base_point, point2, calls) ==
    LET diff_dist == sqrt(squared_euclidean(base_point, point2))
        check_point == steer(base_point, point2, extend_length, diff_dist)
    IN  IF diff_dist < extend_length
        THEN [reached |-> TRUE, ends |-> TRUE, calls |-> calls]
        ELSE IF diff_dist = 0 \/ ~is_free(check_point)
        THEN [reached |-> FALSE, ends |-> TRUE, calls |-> calls + 1]
        ELSE [reached |-> TRUE, ends |-> TRUE, calls |-> calls + 1]

\* The while is_searching loop from base_point toward point2: whether it ended
\* in the reached branch, and the number of is_free calls it made.  Two cases
\* arise only when extend_length is not positive.  With diff_dist = 0 the
\* check point is 0/0, not a number, which is_free (the points of free, and
\* nothing else) rejects.  With a check point equal to base_point that is_free
\* accepts, the loop repeats the same step for ever (ends |-> FALSE).
RECURSIVE shortcut_search(_, _, _)
shortcut_search(base_point, point2, calls) ==
    LET diff_dist == sqrt(squared_euclidean(base_point, point2))
        check_point == steer(base_point, point2, extend_length, diff_dist)
    IN  IF diff_dist < extend_length
        THEN [reached |-> TRUE, ends |-> TRUE, calls |-> calls]
        ELSE IF diff_dist = 0 \/ ~is_free(check_point)
        THEN [reached |-> FALSE, ends |-> TRUE, calls |-> calls + 1]
        ELSE IF check_point = base_point
        THEN [reached |-> FALSE, ends |-> FALSE, calls |-> calls + 1]
        ELSE shortcut_search(check_point, point2, calls + 1)

\* Mutant of remove_between: one removal too many, path[ind2] goes as well.
remove_through(p, ind1, ind2) ==
    SubSeq(p, 1, ind1) \o SubSeq(p, ind2 + 1, Len(p))

\* path.remove(ind1 + 1), ind2 - ind1 - 1 times.
remove_between(p, ind1, ind2) ==
    SubSeq(p, 1, ind1) \o SubSeq(p, ind2, Len(p))

\* Mutant of smooth_attempt: the span is removed whatever the search found.
smooth_attempt_always(s, ind1, ind2) ==
    LET r == shortcut_search(s.path[ind1], s.path[ind2], 0)
        shorter == remove_between(s.path, ind1, ind2)
    IN  [s EXCEPT !.path = shorter, !.tries = @ + 1, !.calls = @ + r.calls,
                  !.ind1 = ind1, !.ind2 = ind2,
                  !.last = IF r.reached THEN "reached" ELSE "trapped",
                  !.pc = IF Len(shorter) = 2 THEN "done" ELSE "loop"]

\* One iteration of the for loop with the indices the two Uniform ranges gave.
smooth_attempt(s, ind1, ind2) ==
    LET r == shortcut_search(s.path[ind1], s.path[ind2], 0)
        shorter == remove_between(s.path, ind1, ind2)
    IN  IF ~r.ends
        THEN [s EXCEPT !.calls = @ + r.calls, !.ind1 = ind1, !.ind2 = ind2,
                       !.pc = "hang"]
        ELSE IF r.reached
        THEN [s EXCEPT !.path = shorter, !.tries = @ + 1, !.calls = @ + r.calls,
                       !.ind1 = ind1, !.ind2 = ind2, !.last = "reached",
                       !.pc = IF Len(shorter) = 2 THEN "done" ELSE "loop"]
        ELSE [s EXCEPT !.tries = @ + 1, !.calls = @ + r.calls,
                       !.ind1 = ind1, !.ind2 = ind2, !.last = "trapped"]

\* Uniform::new(0, path.len() - 2), as 1-based indices.
range1(s) == 1..(Len(s.path) - 2)

\* Uniform::new(ind1 + 2, path.len()), as 1-based indices.
\* Mutant of range2: the waypoint next to ind1 may be drawn.
range2_adjacent(s, ind1) == (ind1 + 1)..Len(s.path)

range2(s, ind1) == (ind1 + 2)..Len(s.path)

smooth_loop_ended(s) == s.tries >= num_max_try

\* ----------------------------------------------------------------- actions
InitArgs ==
    /\ start \in Coords
    /\ goal \in Coords
    /\ extend_length \in Lengths
    /\ num_max_try \in Budgets
    /\ free \in SUBSET Coords
    /\ pick \in {"low", "high"}

\* No second call, no script: random_sample may return any point.
Idle == [pc |-> "idle"]

SingleCall == script = None /\ run2 = Idle

InitDual == InitArgs /\ SingleCall /\ fn = "dual_rrt_connect" /\ run = dual_enter

InitStar == InitArgs /\ SingleCall /\ fn = "rrt_star_connect" /\ run = star_enter

Init == InitDual \/ InitStar

UNCHANGED_ARGS ==
    UNCHANGED <<fn, start, goal, extend_length, num_max_try, free, pick, script, run2>>

DualIterate ==
    /\ fn = "dual_rrt_connect" /\ run.pc = "loop" /\ ~dual_loop_ended(run)
    /\ \E bias \in BOOLEAN, sample \in Coords :
          run' = dual_iteration(run, dual_q_rand(bias, sample))
    /\ UNCHANGED_ARGS

DualFail ==
    /\ fn = "dual_rrt_connect" /\ run.pc = "loop" /\ dual_loop_ended(run)
    /\ run' = dual_failed(run)
    /\ UNCHANGED_ARGS

StarIterate ==
    /\ fn = "rrt_star_connect" /\ run.pc = "loop" /\ ~star_loop_ended(run)
    /\ \E bias \in BOOLEAN, sample \in Coords : run' = star_iteration(run, bias, sample)
    /\ UNCHANGED_ARGS

StarFinish ==
    /\ fn = "rrt_star_connect" /\ run.pc = "loop" /\ star_loop_ended(run)
    /\ run' = star_finish(run)
    /\ UNCHANGED_ARGS

Next == DualIterate \/ DualFail \/ StarIterate \/ StarFinish

Spec == Init /\ [][Next]_vars

\* smooth_path on every path of at most MaxPath points.
Paths == UNION {[1..n -> Waypoints] : n \in 0..MaxPath}

InitSmooth ==
    /\ fn = "smooth_path" /\ SingleCall
    /\ start = 0 /\ goal = 0 /\ pick = "low"
    /\ extend_length \in Lengths
    /\ num_max_try \in Budgets
    /\ free \in SUBSET Coords
    /\ \E p \in Paths : run = smooth_enter(p)

SmoothEntry ==
    /\ fn = "smooth_path" /\ run.pc = "entry"
    /\ run' = smooth_entry(run)
    /\ UNCHANGED_ARGS

SmoothAttempt ==
    /\ fn = "smooth_path" /\ run.pc = "loop" /\ ~smooth_loop_ended(run)
    /\ \E ind1 \in range1(run) : \E ind2 \in range2(run, ind1) :
          run' = smooth_attempt(run, ind1, ind2)
    /\ UNCHANGED_ARGS

SmoothReturn ==
    /\ fn = "smooth_path" /\ run.pc = "loop" /\ smooth_loop_ended(run)
    /\ run' = [run EXCEPT !.pc = "done"]
    /\ UNCHANGED_ARGS

SmoothNext == SmoothEntry \/ SmoothAttempt \/ SmoothReturn

SmoothSpec == InitSmooth /\ [][SmoothNext]_vars

\* The three public functions called with an extend_length that is not
\* positive.
NonPositive == (0 - MaxNeg)..0

InitPrecond ==
    /\ SingleCall
    /\ extend_length \in NonPositive
    /\ num_max_try \in Budgets
    /\ free \in SUBSET Coords
    /\ \/ /\ fn = "dual_rrt_connect" /\ start \in Coords /\ goal \in Coords
          /\ pick \in {"low", "high"} /\ run = dual_enter
       \/ /\ fn = "rrt_star_connect" /\ start \in Coords /\ goal \in Coords
          /\ pick \in {"low", "high"} /\ run = star_enter
       \/ /\ fn = "smooth_path" /\ start = 0 /\ goal = 0 /\ pick = "low"
          /\ \E p \in Paths : run = smooth_enter(p)

PrecondNext == Next \/ SmoothNext

PrecondSpec == InitPrecond /\ [][PrecondNext]_vars

\* Two calls of a planner, one after the other, with the same arguments, the
\* same deterministic is_free and the same deterministic random_sample: a
\* closure without state, which returns the point script at every call.
InitTwin ==
    /\ InitArgs
    /\ fn \in {"dual_rrt_connect", "rrt_star_connect"}
    /\ script \in Coords
    /\ run = (IF fn = "dual_rrt_connect" THEN dual_enter ELSE star_enter)
    /\ run2 = run

\* What the call with locals s does next, bias being the next draw of
\* rand::random.
planner_step(s, bias) ==
    IF fn = "dual_rrt_connect"
    THEN IF dual_loop_ended(s) THEN dual_failed(s)
         ELSE dual_iteration(s, dual_q_rand(bias, script))
    ELSE IF star_loop_ended(s) THEN star_finish(s)
         ELSE star_iteration(s, bias, script)

TwinFirst ==
    /\ run.pc = "loop"
    /\ \E bias \in BOOLEAN : run' = planner_step(run, bias)
    /\ UNCHANGED <<fn, start, goal, extend_length, num_max_try, free, pick, script, run2>>

TwinSecond ==
    /\ run.pc # "loop" /\ run2.pc = "loop"
    /\ \E bias \in BOOLEAN : run2' = planner_step(run2, bias)
    /\ UNCHANGED <<fn, start, goal, extend_length, num_max_try, free, pick, script, run>>

TwinNext == TwinFirst \/ TwinSecond

TwinSpec == InitTwin /\ [][TwinNext]_vars

\* ----------------------------------------------------------- Tree, directly
\* A Tree holding one root, then any sequence of add_vertex, extend,
\* extend_rewire and connect calls on it.  connect runs one extend per step.
\* run.before is the tree as it was when the last call started, run.tries the
\* number of extend calls connect has made.
\* is_free rejects at most one point of the workspace (and all outside it).
FreeSets(points) == {points} \cup {points \ {b} : b \in points}

tree_enter ==
    LET t == add_vertex(Tree_new("tree"), start)
    IN  [tree |-> t, before |-> t, op |-> "new", target |-> start,
         status |-> "none", index |-> 1, tries |-> 0, pc |-> "idle"]

InitTree ==
    /\ fn = "Tree"
    /\ SingleCall
    /\ start \in Coords
    /\ goal = start
    /\ extend_length \in Lengths
    /\ num_max_try = 0
    /\ free \in FreeSets(Coords)
    /\ pick \in {"low", "high"}
    /\ run = tree_enter

TreeCallable == fn = "Tree" /\ run.pc = "idle" /\ Len(run.tree.vertices) < MaxVertices

TreeAddVertex ==
    /\ TreeCallable
    /\ \E q \in Coords :
           run' = [run EXCEPT !.tree = add_vertex(run.tree, q), !.before = run.tree,
                              !.op = "add_vertex", !.target = q, !.status = "none",
                              !.index = Len(run.tree.vertices) + 1]
    /\ UNCHANGED_ARGS

TreeExtend ==
    /\ TreeCallable
    /\ \E q_target \in Coords :
           LET e == extend(run.tree, q_target, extend_length)
           IN  run' = [run EXCEPT !.tree = e.tree, !.before = run.tree,
                                  !.op = "extend", !.target = q_target,
                                  !.status = e.status, !.index = e.index]
    /\ UNCHANGED_ARGS

TreeExtendRewire ==
    /\ TreeCallable
    /\ \E q_target \in Coords :
           LET e == extend_rewire(run.tree, q_target, extend_length)
           IN  run' = [run EXCEPT !.tree = e.tree, !.before = run.tree,
                                  !.op = "extend_rewire", !.target = q_target,
                                  !.status = e.status, !.index = e.index]
    /\ UNCHANGED_ARGS

TreeConnectCall ==
    /\ TreeCallable
    /\ \E q_target \in Coords :
           run' = [run EXCEPT !.before = run.tree, !.op = "connect",
                              !.target = q_target, !.status = "none",
                              !.index = None, !.tries = 0, !.pc = "connect"]
    /\ UNCHANGED_ARGS

TreeConnectStep ==
    /\ fn = "Tree" /\ run.pc = "connect"
    /\ LET e == extend(run.tree, run.target, extend_length)
       IN  run' = [run EXCEPT !.tree = e.tree,
                              !.status = e.status, !.index = e.index,
                              !.tries = @ + 1,
                              !.pc = IF e.status = "Advanced" THEN "connect"
                                     ELSE "idle"]
    /\ UNCHANGED_ARGS

TreeNext ==
    \/ TreeAddVertex
    \/ TreeExtend
    \/ TreeExtendRewire
    \/ TreeConnectCall
    \/ TreeConnectStep

TreeSpec == InitTree /\ [][TreeNext]_vars

\* ---------------------------------------------- extend next to extend_rewire
\* extend and extend_rewire applied to the same tree with the same target,
\* extend_length and predicate, on a workspace wide enough for a candidate
\* to stop 2 short of a target with extend_length = 3.
TreeCoords == 0..MaxTreeCoord
TreeLengths == 1..MaxTreeLen

InitPair ==
    /\ fn = "Pair"
    /\ SingleCall
    /\ start \in TreeCoords
    /\ goal = start
    /\ extend_length \in TreeLengths
    /\ num_max_try = 0
    /\ free \in FreeSets(TreeCoords)
    /\ pick \in {"low", "high"}
    /\ run = [tree |-> add_vertex(Tree_new("tree"), start), target |-> start,
              plain |-> NoResult, rewired |-> NoResult, pc |-> "idle"]

PairAddVertex ==
    /\ fn = "Pair" /\ run.pc = "idle" /\ Len(run.tree.vertices) < MaxVertices
    /\ \E q \in TreeCoords : run' = [run EXCEPT !.tree = add_vertex(run.tree, q)]
    /\ UNCHANGED_ARGS

PairExtend ==
    /\ fn = "Pair" /\ run.pc = "idle"
    /\ \E q_target \in TreeCoords :
           run' = [run EXCEPT !.target = q_target,
                              !.plain = extend(run.tree, q_target, extend_length),
                              !.rewired = extend_rewire(run.tree, q_target, extend_length),
                              !.pc = "compared"]
    /\ UNCHANGED_ARGS

PairNext == PairAddVertex \/ PairExtend

PairSpec == InitPair /\ [][PairNext]_vars

\* ------------------------------------------------------------------ claims
Dist(a, b) == sqrt(squared_euclidean(a, b))

DualReturned ==
    fn = "dual_rrt_connect" /\ run.pc = "done" /\ run.result.kind = "Ok"

StarReturned ==
    fn = "rrt_star_connect" /\ run.pc = "done" /\ run.result.kind = "Ok"

PlannerReturned == DualReturned \/ StarReturned

\* C1: every path dual_rrt_connect returns begins with start and ends with
\* goal, whichever tree was tree_a when the connection was made.
C1_PathEndpoints ==
    DualReturned =>
        LET p == run.result.path
        IN  Len(p) >= 1 /\ p[1] = start /\ p[Len(p)] = goal

\* A connection made after a role swap (tree_b is the start tree), with
\* waypoints between two different endpoints.
C1_Witness ==
    /\ DualReturned
    /\ run.tree_b.name = "start"
    /\ Len(run.result.path) >= 3
    /\ start # goal

\* C2: consecutive waypoints of every returned path are at most extend_length
\* apart, the pair across the junction of the two trees included.
C2_StepLength ==
    PlannerReturned =>
        LET p == run.result.path
        IN  \A i \in 1..(Len(p) - 1) : Dist(p[i], p[i + 1]) <= extend_length

\* C3 as stated: every waypoint of every returned path satisfies is_free,
\* also when start or goal are rejected by the predicate.
C3_AllWaypointsFree ==
    PlannerReturned =>
        \A i \in 1..Len(run.result.path) : is_free(run.result.path[i])

\* C3 as amended: every waypoint of every returned path satisfies is_free or
\* is the caller's start or goal point, which are never tested.
C3_WaypointsFreeButEndpoints ==
    PlannerReturned =>
        \A i \in 1..Len(run.result.path) :
            is_free(run.result.path[i]) \/ run.result.path[i] \in {start, goal}

\* A returned path with waypoints between a rejected start and the goal.
C3_Witness ==
    /\ DualReturned
    /\ ~is_free(start)
    /\ Len(run.result.path) >= 3
    /\ \E i \in 1..Len(run.result.path) : run.result.path[i] \notin {start, goal}

\* C4: every path rrt_star_connect returns is not empty, begins with start
\* and ends with the vertex the path was built for (goal after a direct
\* connection, the best-seen point after the budget ran out).
C4_StarPathOrder ==
    StarReturned =>
        LET p == run.result.path
        IN  /\ p # <<>>
            /\ p[1] = start
            /\ p[Len(p)] = run.tree.vertices[run.target].data

\* C5: rrt_star_connect runs at most num_max_try iterations, its root walk
\* ends, and what it returns is a path, never the failure value.
C5_StarTerminates ==
    fn = "rrt_star_connect" =>
        /\ run.tries <= num_max_try
        /\ run.pc # "hang"
        /\ run.pc = "done" => run.result.kind = "Ok"

\* C6: dual_rrt_connect draws one sample per iteration and at most
\* num_max_try in all; it returns the failure value exactly when all
\* num_max_try iterations ended without connect returning Reached, and a path
\* exactly when the last iteration's connect returned Reached.
C6_FailureIffNoConnection ==
    fn = "dual_rrt_connect" =>
        /\ run.samples = Len(run.log)
        /\ run.samples <= num_max_try
        /\ \A i \in 1..(Len(run.log) - 1) : run.log[i] # "Reached"
        /\ run.pc = "done" =>
             /\ run.result.kind \in {"Ok", "Err"}
             /\ run.result.kind = "Err" <=>
                  /\ Len(run.log) = num_max_try
                  /\ \A i \in 1..Len(run.log) : run.log[i] # "Reached"
             /\ run.result.kind = "Ok" <=>
                  Len(run.log) >= 1 /\ run.log[Len(run.log)] = "Reached"

\* The budget ran out after an iteration in which connect was called and
\* came back Trapped.
C6_Witness ==
    /\ fn = "dual_rrt_connect" /\ run.pc = "done" /\ run.result.kind = "Err"
    /\ Len(run.log) >= 2
    /\ \E i \in 1..Len(run.log) : run.log[i] = "Trapped"

\* C8: no shortcut attempt of smooth_path makes the path longer, so the path
\* never has more waypoints than the input, and a path that came in with at
\* least 2 waypoints never has fewer than 2.
C8_NeverLonger ==
    [][fn = "smooth_path" =>
         /\ Len(run'.path) <= Len(run.path)
         /\ Len(run'.path) <= Len(run.input)
         /\ Len(run.input) >= 2 => Len(run'.path) >= 2]_vars

\* A shortcut was taken and smoothing goes on with at least 3 waypoints.
C8_Witness ==
    /\ fn = "smooth_path" /\ run.last = "reached"
    /\ Len(run.path) < Len(run.input)
    /\ Len(run.path) >= 3

\* The points smooth_path steps through from a toward b: a moved by k times
\* extend_length, for every k that does not overshoot b.
StepPoints(a, b) ==
    {IF a <= b THEN a + k * extend_length ELSE a - k * extend_length :
        k \in {j \in 1..Dist(a, b) : j * extend_length <= Dist(a, b)}}

\* C9: an attempt between path[ind1] and path[ind2] with a step point that
\* fails is_free leaves the path as it was, and the loop goes on.
C9_TrappedKeepsPath ==
    [][(/\ fn = "smooth_path" /\ run.pc = "loop"
        /\ run'.tries = run.tries + 1
        /\ \E q \in StepPoints(run.path[run'.ind1], run.path[run'.ind2]) : ~is_free(q))
       => run'.path = run.path /\ run'.pc = "loop" /\ run'.last = "trapped"]_vars

\* A failed attempt on a path of 4 waypoints that made more than one step,
\* with another attempt still to come.
C9_Witness ==
    /\ fn = "smooth_path" /\ run.pc = "loop" /\ run.last = "trapped"
    /\ run.tries < num_max_try
    /\ run.calls >= 2
    /\ Len(run.path) >= 4

\* C10: on a path of fewer than 3 points smooth_path returns at once: the
\* path is the input, is_free was never called and no attempt was made.
C10_ShortPathUntouched ==
    (fn = "smooth_path" /\ Len(run.input) < 3) =>
        /\ run.pc \in {"entry", "done"}
        /\ run.path = run.input
        /\ run.calls = 0
        /\ run.tries = 0

\* smooth_path has returned on a 2-point path whose only segment has a step
\* point that fails is_free, with attempts allowed.
C10_Witness ==
    /\ fn = "smooth_path" /\ run.pc = "done"
    /\ Len(run.input) = 2
    /\ num_max_try >= 1
    /\ \E q \in StepPoints(run.input[1], run.input[2]) : ~is_free(q)

C11_NonPositiveAborts ==
    extend_length <= 0 =>
        /\ run.pc \in {"entry", "loop", "panic"}
        /\ run.tries = 0

\* C12: after any sequence of add_vertex, extend, extend_rewire and connect
\* calls no vertex is its own parent and the walk of get_until_root ends at a
\* parentless vertex from every index.
C12_Acyclic ==
    fn = "Tree" =>
        \A index \in 1..Len(run.tree.vertices) :
            /\ run.tree.vertices[index].parent_index # index
            /\ get_until_root(run.tree, index).ends

TreeGrew == fn = "Tree" /\ run.pc = "idle" /\ run.status \in {"Reached", "Advanced"}

\* C13: when extend_rewire returns Reached(i) or Advanced(i), the parent of
\* vertex i is the vertex that was nearest to the target when the call
\* started, the parent extend gives it.
C13_NewVertexParent ==
    (TreeGrew /\ run.op = "extend_rewire") =>
        /\ run.tree.vertices[run.index].parent_index
             = get_nearest_index(run.before, run.target)
        /\ run.tree.vertices[run.index].parent_index
             = extend(run.before, run.target, extend_length).tree.vertices[run.index].parent_index

\* C14: on the same tree, target, extend_length and predicate, extend and
\* extend_rewire add the same candidate and return the same kind of outcome:
\* Trapped when is_free rejects the candidate, Reached when the candidate is
\* less than extend_length from the target, Advanced otherwise.
C14_SameOutcome ==
    (fn = "Pair" /\ run.pc = "compared") =>
        /\ run.plain.status = run.rewired.status
        /\ run.plain.status # "Trapped" =>
              /\ run.plain.index = run.rewired.index
              /\ run.plain.tree.vertices[run.plain.index].data
                   = run.rewired.tree.vertices[run.rewired.index].data
              /\ (run.rewired.status = "Reached")
                   <=> Dist(run.rewired.tree.vertices[run.rewired.index].data,
                            run.target) < extend_length

SmoothAttempted ==
    fn = "smooth_path" /\ run.pc = "loop" /\ run'.tries = run.tries + 1

BlockedBetween(a, b) == \E q \in StepPoints(a, b) : ~is_free(q)

\* p with the waypoints strictly between positions i1 and i2 taken out.
IsCutOf(shorter, p, i1, i2) ==
    /\ Len(shorter) = Len(p) - (i2 - i1 - 1)
    /\ \A k \in 1..i1 : shorter[k] = p[k]
    /\ \A k \in i2..Len(p) : shorter[k - (i2 - i1 - 1)] = p[k]

\* C15: an attempt of smooth_path takes out the waypoints strictly between
\* ind1 and ind2 exactly when every step point from path[ind1] toward
\* path[ind2] satisfies is_free, and leaves the path as it was otherwise; so
\* a path of at least 3 waypoints with a rejected step point between its
\* first and its last waypoint always keeps at least 3 waypoints.
C15_ShortcutIffFree ==
    /\ [][SmoothAttempted =>
            IF BlockedBetween(run.path[run'.ind1], run.path[run'.ind2])
            THEN run'.path = run.path
            ELSE IsCutOf(run'.path, run.path, run'.ind1, run'.ind2)]_vars
    /\ []((/\ fn = "smooth_path"
           /\ Len(run.input) >= 3
           /\ BlockedBetween(run.input[1], run.input[Len(run.input)]))
          => Len(run.path) >= 3)

\* A shortcut was taken on a path whose first and last waypoint have a
\* rejected step point between them.
C15_Witness ==
    /\ fn = "smooth_path" /\ run.last = "reached"
    /\ Len(run.input) = MaxPath /\ Len(run.path) = 3
    /\ BlockedBetween(run.input[1], run.input[Len(run.input)])
    /\ run.tries = num_max_try

\* s can be obtained from t by deleting entries of t.
RECURSIVE IsSubsequence(_, _)
IsSubsequence(s, t) ==
    IF s = <<>> THEN TRUE
    ELSE IF t = <<>> THEN FALSE
    ELSE IF s[1] = t[1] THEN IsSubsequence(Tail(s), Tail(t))
    ELSE IsSubsequence(s, Tail(t))

\* C20: all through smooth_path the path is a subsequence of the input path
\* that keeps the input's first and last waypoint, and every shortcut attempt
\* starts on a path of at least 3 waypoints with indices (1-based here)
\* 1 <= ind1, ind1 + 2 <= ind2 <= the length of the path.
C20_SubsequenceAndIndices ==
    /\ [](fn = "smooth_path" =>
            /\ IsSubsequence(run.path, run.input)
            /\ Len(run.input) >= 1 =>
                  /\ Len(run.path) >= 1
                  /\ run.path[1] = run.input[1]
                  /\ run.path[Len(run.path)] = run.input[Len(run.input)])
    /\ [][SmoothAttempted =>
            /\ Len(run.path) >= 3
            /\ 1 <= run'.ind1
            /\ run'.ind1 + 2 <= run'.ind2
            /\ run'.ind2 <= Len(run.path)]_vars

\* A second attempt, trapped, on the 3 waypoints a first one had left.
C20_Witness ==
    /\ fn = "smooth_path" /\ run.tries = 2
    /\ run.ind1 = 1 /\ run.ind2 = 3
    /\ Len(run.path) = 3 /\ Len(run.input) = MaxPath
    /\ run.last = "trapped"

\* One iteration of the for loop of dual_rrt_connect.
DualIterated ==
    fn = "dual_rrt_connect" /\ run.pc = "loop" /\ run'.samples = run.samples + 1

\* The tree called name, whichever of tree_a and tree_b holds it.
TreeNamed(s, name) == IF s.tree_a.name = name THEN s.tree_a ELSE s.tree_b

\* after is before with vertices appended: nothing stored was altered.
IsGrowthOf(after, before) ==
    /\ Len(after.vertices) >= Len(before.vertices)
    /\ SubSeq(after.vertices, 1, Len(before.vertices)) = before.vertices
    /\ before.kdtree \subseteq after.kdtree

\* C16 as stated: in an iteration of dual_rrt_connect the tree that is not
\* the active one (tree_b before the swap) keeps its vertex store and its
\* parent links.
C16_OtherTreeUnchanged ==
    [][DualIterated => TreeNamed(run', run.tree_b.name) = run.tree_b]_vars

\* C16 amended: an iteration appends at most one vertex to the active tree
\* (extend) and appends vertices to the other tree (connect) only if one was
\* appended to the active tree; no stored vertex or parent link is altered.
C16_ActiveThenOther ==
    [][DualIterated =>
         LET active == TreeNamed(run', run.tree_a.name)
             other == TreeNamed(run', run.tree_b.name)
         IN  /\ IsGrowthOf(active, run.tree_a)
             /\ Len(active.vertices) <= Len(run.tree_a.vertices) + 1
             /\ IsGrowthOf(other, run.tree_b)
             /\ other # run.tree_b => active # run.tree_a]_vars

\* After the first iteration both trees hold more than their root.
C16_Witness ==
    /\ fn = "dual_rrt_connect" /\ run.samples = 1
    /\ Len(TreeNamed(run, "start").vertices) = 2
    /\ Len(TreeNamed(run, "goal").vertices) >= 3

\* The distance from q to the vertex of t nearest to it.
NearestDist(t, q) ==
    LET ds == {Dist(t.vertices[i].data, q) : i \in 1..Len(t.vertices)}
    IN  CHOOSE d \in ds : \A other \in ds : d <= other

\* C17: every extend of connect that returns Advanced brings the tree's
\* nearest vertex strictly closer to the target; connect makes a bounded
\* number of extend calls and returns Trapped or Reached, never Advanced, and
\* the loop run step by step ends as the function applied at once does.
C17_ConnectTerminates ==
    /\ [][(fn = "Tree" /\ run.pc = "connect" /\ run'.status = "Advanced")
            => NearestDist(run'.tree, run.target)
                 < NearestDist(run.tree, run.target)]_vars
    /\ []((fn = "Tree" /\ run.op = "connect") =>
            /\ run.tries <= MaxCoord \div extend_length + 1
            /\ run.pc = "idle" =>
                  /\ run.status \in {"Trapped", "Reached"}
                  /\ connect(run.before, run.target, extend_length)
                       = [tree |-> run.tree, status |-> run.status,
                          index |-> run.index])

\* connect returned Reached after at least two Advanced steps.
C17_Witness ==
    /\ fn = "Tree" /\ run.op = "connect" /\ run.pc = "idle"
    /\ run.status = "Reached" /\ run.tries >= 3

\* C18: the radius query extend_rewire makes around its new vertex, with
\* radius extend_length, returns exactly the vertices whose Euclidean
\* distance to the new vertex is at most extend_length.
C18_RadiusInclusive ==
    (TreeGrew /\ run.op = "extend_rewire") =>
        LET q_new == run.tree.vertices[run.index].data
        IN  get_nearest_indices_in_radius(run.tree, q_new, extend_length)
              = {i \in 1..Len(run.tree.vertices) :
                    Dist(run.tree.vertices[i].data, q_new) <= extend_length}

\* C19: a Trapped extend or extend_rewire leaves the tree as it was; a
\* Reached or Advanced one appended exactly one vertex, stored and indexed,
\* and returned its index (1-based here: the previous vertex count plus 1).
C19_TrappedOrOneVertex ==
    (fn = "Tree" /\ run.op \in {"extend", "extend_rewire"}) =>
        IF run.status = "Trapped"
        THEN run.tree = run.before
        ELSE /\ run.status \in {"Reached", "Advanced"}
             /\ Len(run.tree.vertices) = Len(run.before.vertices) + 1
             /\ run.index = Len(run.before.vertices) + 1
             /\ \A i \in 1..Len(run.before.vertices) :
                    run.tree.vertices[i].data = run.before.vertices[i].data
             /\ run.tree.kdtree
                  = run.before.kdtree
                      \cup {<<run.tree.vertices[run.index].data, run.index>>}

\* extend_rewire returned Trapped on a tree that already had a second vertex.
C19_Witness ==
    /\ fn = "Tree" /\ run.op = "extend_rewire" /\ run.status = "Trapped"
    /\ Len(run.before.vertices) >= 2
====
